---- MODULE Spec2Model ----
(***************************************************************************)
(* Model of the authorship tools: author_doc_to_csv.py (text segmenter,    *)
(* affiliation parser, author parser), renumber_affiliations.py (the       *)
(* renumbering engine), csv_to_author_doc.py (document renderer) and       *)
(* tidy_authorship.py (pipeline driver).                                   *)
(*                                                                         *)
(* Python strings are modelled as sequences of one-character strings, so   *)
(* that strip, split, join, lower and the regular expressions are computed *)
(* character by character as the code computes them.  Python dicts are     *)
(* modelled as sequences of <<key, value>> pairs with distinct keys, in    *)
(* insertion order (the order dict.items() iterates in).                   *)
(***************************************************************************)
EXTENDS Integers, Sequences, FiniteSets, TLC

VARIABLES
    \* renumber_affiliations.py: renumber_affiliations
    names_data, affiliations_map, old_to_new_id_map, new_affiliations_list,
    current_new_id, updated_names_data, new_ids_for_this_author,
    ai, ri, oi, rpc, warnings, run, first_input, first_output,
    \* author_doc_to_csv.py: parse_data
    full_text, seg, line_no, author_text, affiliation_text, spc,
    \* author_doc_to_csv.py: parse_affiliations_to_dict
    text_f, affiliations, line_f, fpc,
    \* author_doc_to_csv.py: parse_authors_to_list
    listed, block_a, text_a, authors, pos_a, apc,
    \* csv_to_author_doc.py: generate_document_xml, and the document read back
    authors_in, affiliations_in, document, tpc,
    \* tidy_authorship.py: main, run_step, and the three scripts it runs
    entry, input_docx, unwritable, launchable, keep_csv,
    files, exit_status, driver_status, fatal, cleaned, ppc

rvars == <<names_data, affiliations_map, old_to_new_id_map, new_affiliations_list,
           current_new_id, updated_names_data, new_ids_for_this_author,
           ai, ri, oi, rpc, warnings, run, first_input, first_output>>

svars == <<full_text, seg, line_no, author_text, affiliation_text, spc>>

fvars == <<text_f, affiliations, line_f, fpc>>

avars == <<listed, block_a, text_a, authors, pos_a, apc>>

tvars == <<authors_in, affiliations_in, document, tpc>>

pvars == <<entry, input_docx, unwritable, launchable, keep_csv,
           files, exit_status, driver_status, fatal, cleaned, ppc>>

vars == <<rvars, svars, fvars, avars, tvars, pvars>>

\* what the calls of one component leave alone: the other components
notr == <<svars, fvars, avars, tvars, pvars>>

nots == <<rvars, fvars, avars, tvars, pvars>>

notf == <<rvars, svars, avars, tvars, pvars>>

nota == <<rvars, svars, fvars, tvars, pvars>>

notp == <<rvars, svars, fvars, avars, tvars>>

(***************************************************************************)
(* Bounds of the model.                                                    *)
(***************************************************************************)
MaxAuthors == 2
MaxAffils == 2
MaxRuns == 2
MaxLines == 4
MaxAffLines == 3
MaxListed == 2
MaxRosterAuthors == 2
MaxRosterAffils == 2
MaxRenderAuthors == 1
MaxRenderAffils == 3

(***************************************************************************)
(* Python string primitives.                                               *)
(***************************************************************************)
Digits == <<"0", "1", "2", "3", "4", "5", "6", "7", "8", "9">>

IsDigit(c) == \E d \in 1..10 : Digits[d] = c

IsSpace(c) == c \in {" ", "\t", "\n", "\r"}

SetMin(S) == CHOOSE x \in S : \A y \in S : x <= y

SetMax(S) == CHOOSE x \in S : \A y \in S : x >= y

\* s.lstrip(chars): drop the leading characters that are in cs
LStripChars(s, cs) ==
    LET keep == {p \in 1..Len(s) : s[p] \notin cs}
    IN  IF keep = {} THEN <<>> ELSE SubSeq(s, SetMin(keep), Len(s))

\* s.strip(chars): drop the leading and trailing characters that are in cs
StripChars(s, cs) ==
    LET keep == {p \in 1..Len(s) : s[p] \notin cs}
    IN  IF keep = {} THEN <<>> ELSE SubSeq(s, SetMin(keep), SetMax(keep))

\* s.strip(): drop leading and trailing whitespace
Strip(s) ==
    LET keep == {p \in 1..Len(s) : ~IsSpace(s[p])}
    IN  IF keep = {} THEN <<>> ELSE SubSeq(s, SetMin(keep), SetMax(keep))

\* s.split(sep) for a one-character separator: empty pieces are kept
RECURSIVE Split(_, _)
Split(s, sep) ==
    LET hits == {p \in 1..Len(s) : s[p] = sep}
    IN  IF hits = {} THEN <<s>>
        ELSE LET p == SetMin(hits)
             IN  <<SubSeq(s, 1, p - 1)>> \o Split(SubSeq(s, p + 1, Len(s)), sep)

\* s.split(): pieces between runs of whitespace, no empty pieces
RECURSIVE SplitWS(_)
SplitWS(s) ==
    LET t == LStripChars(s, {" ", "\t", "\n", "\r"})
        ws == {p \in 1..Len(t) : IsSpace(t[p])}
    IN  IF t = <<>> THEN <<>>
        ELSE IF ws = {} THEN <<t>>
        ELSE <<SubSeq(t, 1, SetMin(ws) - 1)>> \o SplitWS(SubSeq(t, SetMin(ws), Len(t)))

\* sep.join(parts)
RECURSIVE Join(_, _)
Join(parts, sep) ==
    IF parts = <<>> THEN <<>>
    ELSE IF Len(parts) = 1 THEN parts[1]
    ELSE parts[1] \o sep \o Join(Tail(parts), sep)

\* str(n) for a natural number: its decimal digits
RECURSIVE Str(_)
Str(n) == IF n < 10 THEN <<Digits[n + 1]>> ELSE Str(n \div 10) \o <<Digits[(n % 10) + 1]>>

\* the items of a list that are not empty strings, in order
RECURSIVE NonEmpty(_)
NonEmpty(parts) ==
    IF parts = <<>> THEN <<>>
    ELSE IF parts[1] = <<>> THEN NonEmpty(Tail(parts))
    ELSE <<parts[1]>> \o NonEmpty(Tail(parts))

\* the items of the lists of a list, in order
RECURSIVE Flatten(_)
Flatten(lists) == IF lists = <<>> THEN <<>> ELSE lists[1] \o Flatten(Tail(lists))

UpperCase == <<"A", "B", "C", "D", "E", "F", "G", "H", "I", "J", "K", "L", "M",
               "N", "O", "P", "Q", "R", "S", "T", "U", "V", "W", "X", "Y", "Z">>

LowerCase == <<"a", "b", "c", "d", "e", "f", "g", "h", "i", "j", "k", "l", "m",
               "n", "o", "p", "q", "r", "s", "t", "u", "v", "w", "x", "y", "z">>

\* s.lower()
Lower(s) ==
    [p \in 1..Len(s) |->
        IF \E u \in 1..26 : UpperCase[u] = s[p]
        THEN LowerCase[CHOOSE u \in 1..26 : UpperCase[u] = s[p]]
        ELSE s[p]]

(***************************************************************************)
(* Python dict primitives, a dict being a sequence of <<key, value>>.      *)
(***************************************************************************)
Keys(d) == {d[p][1] : p \in 1..Len(d)}

HasKey(d, key) == \E p \in 1..Len(d) : d[p][1] = key

Get(d, key) == d[CHOOSE p \in 1..Len(d) : d[p][1] = key][2]

\* d[key] = value: overwrite in place, or insert at the end
Put(d, key, value) ==
    IF HasKey(d, key)
    THEN [p \in 1..Len(d) |-> IF d[p][1] = key THEN <<key, value>> ELSE d[p]]
    ELSE Append(d, <<key, value>>)

(***************************************************************************)
(* renumber_affiliations.py: renumber_affiliations(names_data,             *)
(* affiliations_map)                                                       *)
(***************************************************************************)
\* the values of author['affils'] the model draws from
AffilStrings ==
    { <<>>, <<" ">>, <<"1">>, <<"9">>, <<"9", ",", "1">>,
      <<"1", ",", "2">>, <<"2", ",", "1">>, <<"1", ",", " ", "2", ",">>,
      <<"9", ",", "9">> }

\* the keys and texts of the affiliation file the model draws from
AffilKeys == { <<"1">>, <<"2">>, <<"5">> }

\* the text the affiliation file gives each key
AffilText(key) ==
    CASE key = <<"1">> -> "MIT"
      [] key = <<"2">> -> "Stanford"
      [] OTHER -> "Unused U."

LastNames == <<"Doe", "Smith", "Lee", "Kim">>

\* all dicts of n entries with distinct keys, in every insertion order
RECURSIVE DictsOfLen(_)
DictsOfLen(n) ==
    IF n = 0 THEN { <<>> }
    ELSE { Append(d, <<key, AffilText(key)>>) : d \in DictsOfLen(n - 1), key \in AffilKeys }

AffilMaps ==
    { d \in UNION { DictsOfLen(n) : n \in 0..MaxAffils } :
        \A p, q \in 1..Len(d) : p # q => d[p][1] # d[q][1] }

AuthorLists ==
    UNION { { [p \in 1..n |-> [last |-> LastNames[p], first |-> "J.", affils |-> a[p]]] :
                a \in [1..n -> AffilStrings] } : n \in 0..MaxAuthors }

\* line 35: [x.strip() for x in original_ids_str.split(',') if x.strip()]
RECURSIVE StripAll(_)
StripAll(parts) ==
    IF parts = <<>> THEN <<>> ELSE <<Strip(parts[1])>> \o StripAll(Tail(parts))

OriginalIds(original_ids_str) == NonEmpty(StripAll(Split(original_ids_str, ",")))

\* line 29: if not original_ids_str.strip()
HasNoAffiliations(author) == Strip(author.affils) = <<>>

\* a fallback that takes an id of the sequence instead of keeping the original
FallbackIdFirst(oid) == <<"1">>

\* line 46: the fallback for an id that is not in the affiliations file
FallbackId(oid) == oid

\* a numbering that starts at 0 instead of 1
NewIdFromZero(counter) == Str(counter - 1)

\* lines 49, 67: new_id = str(current_new_id)
NewId(counter) == Str(counter)

\* a counter that skips a number
NextCounterSkip(counter) == counter + 2

\* lines 54, 70: current_new_id += 1
NextCounter(counter) == counter + 1

\* line 44: the warning names the author (author['last']) and the id
WarningFor(author, oid) == <<author.last, oid>>

\* an orphan pass that does not look at old_to_new_id_map
IsOrphanAlways(remap, oid) == TRUE

\* line 66: if oid not in old_to_new_id_map
IsOrphan(remap, oid) == ~HasKey(remap, oid)

\* an append that drops an id the author's list already holds
AppendNewIdOnce(new_ids, new_id) ==
    IF \E p \in 1..Len(new_ids) : new_ids[p] = new_id THEN new_ids
    ELSE Append(new_ids, new_id)

\* line 56: new_ids_for_this_author.append(old_to_new_id_map[oid])
AppendNewId(new_ids, new_id) == Append(new_ids, new_id)

original_ids == OriginalIds(names_data[ai].affils)

RenumberStart(names, affmap) ==
    /\ names_data' = names
    /\ affiliations_map' = affmap
    /\ old_to_new_id_map' = <<>>
    /\ new_affiliations_list' = <<>>
    /\ current_new_id' = 1
    /\ updated_names_data' = <<>>
    /\ new_ids_for_this_author' = <<>>
    /\ ai' = 1
    /\ ri' = 1
    /\ oi' = 1
    /\ rpc' = "authors"
    /\ warnings' = <<>>

\* the renumbering engine before any call
RIdle ==
    /\ names_data = <<>>
    /\ affiliations_map = <<>>
    /\ old_to_new_id_map = <<>>
    /\ new_affiliations_list = <<>>
    /\ current_new_id = 1
    /\ updated_names_data = <<>>
    /\ new_ids_for_this_author = <<>>
    /\ ai = 1
    /\ ri = 1
    /\ oi = 1
    /\ rpc = "idle"
    /\ warnings = <<>>
    /\ run = 1
    /\ first_input = <<>>
    /\ first_output = <<>>

\* the segmenter before any call
SIdle ==
    /\ full_text = <<>>
    /\ seg = [found_split |-> FALSE, title_skipped |-> FALSE,
              author_lines |-> <<>>, affiliation_lines |-> <<>>]
    /\ line_no = 1
    /\ author_text = <<>>
    /\ affiliation_text = <<>>
    /\ spc = "idle"

\* the affiliation parser before any call
FIdle ==
    /\ text_f = <<>>
    /\ affiliations = <<>>
    /\ line_f = 1
    /\ fpc = "idle"

\* the author parser before any call
AIdle ==
    /\ listed = <<>>
    /\ block_a = <<>>
    /\ text_a = <<>>
    /\ authors = <<>>
    /\ pos_a = 1
    /\ apc = "idle"

\* the renderer before any call
TIdle ==
    /\ authors_in = <<>>
    /\ affiliations_in = <<>>
    /\ document = <<>>
    /\ tpc = "idle"

\* no process started
PIdle ==
    /\ entry = "none"
    /\ input_docx = "ok"
    /\ unwritable = {}
    /\ launchable = TRUE
    /\ keep_csv = FALSE
    /\ files = <<>>
    /\ exit_status = <<>>
    /\ driver_status = -1
    /\ fatal = {}
    /\ cleaned = FALSE
    /\ ppc = "idle"

RInit ==
    /\ SIdle
    /\ FIdle
    /\ AIdle
    /\ TIdle
    /\ PIdle
    /\ names_data \in AuthorLists
    /\ affiliations_map \in AffilMaps
    /\ old_to_new_id_map = <<>>
    /\ new_affiliations_list = <<>>
    /\ current_new_id = 1
    /\ updated_names_data = <<>>
    /\ new_ids_for_this_author = <<>>
    /\ ai = 1
    /\ ri = 1
    /\ oi = 1
    /\ rpc = "authors"
    /\ warnings = <<>>
    /\ run = 1
    /\ first_input = <<>>
    /\ first_output = <<>>

\* lines 29-31: an author without affiliations is appended as is
SkipAuthor ==
    /\ rpc = "authors"
    /\ ai <= Len(names_data)
    /\ HasNoAffiliations(names_data[ai])
    /\ updated_names_data' = Append(updated_names_data, names_data[ai])
    /\ ai' = ai + 1
    /\ UNCHANGED <<names_data, affiliations_map, old_to_new_id_map, new_affiliations_list,
                   current_new_id, new_ids_for_this_author, ri, oi, rpc, warnings,
                   run, first_input, first_output, notr>>

InAuthor ==
    /\ rpc = "authors"
    /\ ai <= Len(names_data)
    /\ ~HasNoAffiliations(names_data[ai])

\* lines 41-46, 56: an id seen for the first time that is not in the affiliations file
RefMissing ==
    /\ InAuthor
    /\ ri <= Len(original_ids)
    /\ LET oid == original_ids[ri]
       IN  /\ ~HasKey(old_to_new_id_map, oid)
           /\ ~HasKey(affiliations_map, oid)
           /\ warnings' = Append(warnings, WarningFor(names_data[ai], oid))
           /\ old_to_new_id_map' = Put(old_to_new_id_map, oid, FallbackId(oid))
           /\ new_ids_for_this_author' = AppendNewId(new_ids_for_this_author, FallbackId(oid))
    /\ ri' = ri + 1
    /\ UNCHANGED <<names_data, affiliations_map, new_affiliations_list, current_new_id,
                   updated_names_data, ai, oi, rpc, run, first_input, first_output, notr>>

\* lines 41-43, 47-56: an id seen for the first time that is in the affiliations file
RefAssign ==
    /\ InAuthor
    /\ ri <= Len(original_ids)
    /\ LET oid == original_ids[ri]
           new_id == NewId(current_new_id)
       IN  /\ ~HasKey(old_to_new_id_map, oid)
           /\ HasKey(affiliations_map, oid)
           /\ old_to_new_id_map' = Put(old_to_new_id_map, oid, new_id)
           /\ new_affiliations_list' =
                  Append(new_affiliations_list, <<new_id, Get(affiliations_map, oid)>>)
           /\ current_new_id' = NextCounter(current_new_id)
           /\ new_ids_for_this_author' = AppendNewId(new_ids_for_this_author, new_id)
    /\ ri' = ri + 1
    /\ UNCHANGED <<names_data, affiliations_map, updated_names_data, ai, oi, rpc,
                   warnings, run, first_input, first_output, notr>>

\* lines 41, 56: an id that is already in old_to_new_id_map
RefSeen ==
    /\ InAuthor
    /\ ri <= Len(original_ids)
    /\ LET oid == original_ids[ri]
       IN  /\ HasKey(old_to_new_id_map, oid)
           /\ new_ids_for_this_author' =
                  AppendNewId(new_ids_for_this_author, Get(old_to_new_id_map, oid))
    /\ ri' = ri + 1
    /\ UNCHANGED <<names_data, affiliations_map, old_to_new_id_map, new_affiliations_list,
                   current_new_id, updated_names_data, ai, oi, rpc, warnings,
                   run, first_input, first_output, notr>>

\* lines 58-61: the author's copy with the joined new ids
FinishAuthor ==
    /\ InAuthor
    /\ ri > Len(original_ids)
    /\ updated_names_data' =
           Append(updated_names_data,
                  [names_data[ai] EXCEPT !.affils = Join(new_ids_for_this_author, <<",">>)])
    /\ new_ids_for_this_author' = <<>>
    /\ ai' = ai + 1
    /\ ri' = 1
    /\ UNCHANGED <<names_data, affiliations_map, old_to_new_id_map, new_affiliations_list,
                   current_new_id, oi, rpc, warnings, run, first_input, first_output, notr>>

\* line 25 exhausted: on to the orphan pass of line 65
AuthorsDone ==
    /\ rpc = "authors"
    /\ ai > Len(names_data)
    /\ rpc' = "orphans"
    /\ UNCHANGED <<names_data, affiliations_map, old_to_new_id_map, new_affiliations_list,
                   current_new_id, updated_names_data, new_ids_for_this_author,
                   ai, ri, oi, warnings, run, first_input, first_output, notr>>

\* lines 65-70: an affiliation no author used gets the next id
OrphanAssign ==
    /\ rpc = "orphans"
    /\ oi <= Len(affiliations_map)
    /\ LET oid == affiliations_map[oi][1]
           text == affiliations_map[oi][2]
           new_id == NewId(current_new_id)
       IN  /\ IsOrphan(old_to_new_id_map, oid)
           /\ old_to_new_id_map' = Put(old_to_new_id_map, oid, new_id)
           /\ new_affiliations_list' = Append(new_affiliations_list, <<new_id, text>>)
           /\ current_new_id' = NextCounter(current_new_id)
    /\ oi' = oi + 1
    /\ UNCHANGED <<names_data, affiliations_map, updated_names_data,
                   new_ids_for_this_author, ai, ri, rpc, warnings, run, first_input, first_output, notr>>

\* lines 65-66: an affiliation that already has an entry in old_to_new_id_map
OrphanSkip ==
    /\ rpc = "orphans"
    /\ oi <= Len(affiliations_map)
    /\ ~IsOrphan(old_to_new_id_map, affiliations_map[oi][1])
    /\ oi' = oi + 1
    /\ UNCHANGED <<names_data, affiliations_map, old_to_new_id_map, new_affiliations_list,
                   current_new_id, updated_names_data, new_ids_for_this_author,
                   ai, ri, rpc, warnings, run, first_input, first_output, notr>>

\* line 72: return new_affiliations_list, updated_names_data
Return ==
    /\ rpc = "orphans"
    /\ oi > Len(affiliations_map)
    /\ rpc' = "done"
    /\ UNCHANGED <<names_data, affiliations_map, old_to_new_id_map, new_affiliations_list,
                   current_new_id, updated_names_data, new_ids_for_this_author,
                   ai, ri, oi, warnings, run, first_input, first_output, notr>>

\* the engine called again on what it returned (the returned list taken as the dict)
Rerun ==
    /\ rpc = "done"
    /\ run < MaxRuns
    /\ run' = run + 1
    /\ first_input' = IF run = 1 THEN <<names_data, affiliations_map>> ELSE first_input
    /\ first_output' = IF run = 1 THEN <<new_affiliations_list, updated_names_data>>
                                   ELSE first_output
    /\ RenumberStart(updated_names_data, new_affiliations_list)
    /\ UNCHANGED notr

RNext ==
    \/ SkipAuthor
    \/ RefMissing
    \/ RefAssign
    \/ RefSeen
    \/ FinishAuthor
    \/ AuthorsDone
    \/ OrphanAssign
    \/ OrphanSkip
    \/ Return
    \/ Rerun

SpecRenumber == RInit /\ [][RNext]_vars

(***************************************************************************)
(* author_doc_to_csv.py: parse_data(full_text)                             *)
(***************************************************************************)
\* the lines of the document text the model draws from
DocLines ==
    { <<>>, <<" ">>, <<"T">>, <<" ", "D", "1", " ">>, <<"1", " ", "M">>,
      <<"a", "f", "f", "i", "l", "i", "a", "t", "i", "o", "n", "s">>,
      <<" ", "A", "F", "F", "i", "l", "i", "a", "t", "i", "o", "n", "s", " ">>,
      <<"A", "f", "f", "i", "l", "i", "a", "t", "i", "o", "n">> }

DocTexts ==
    UNION { { Join(ls, <<"\n">>) : ls \in [1..n -> DocLines] } : n \in 1..MaxLines }

\* a divider check that forgets the case folding
IsDividerCaseSensitive(clean_line) ==
    clean_line = <<"A", "f", "f", "i", "l", "i", "a", "t", "i", "o", "n", "s">>

\* line 75: clean_line.lower() == "affiliations"
IsDivider(clean_line) ==
    Lower(clean_line) = <<"a", "f", "f", "i", "l", "i", "a", "t", "i", "o", "n", "s">>

\* lines 63-67: the locals of parse_data before the loop
SegStart ==
    [found_split |-> FALSE, title_skipped |-> FALSE,
     author_lines |-> <<>>, affiliation_lines |-> <<>>]

\* lines 69-90: one pass of the loop body
SegStep(st, line) ==
    LET clean_line == Strip(line)
    IN  IF clean_line = <<>> THEN st
        ELSE IF IsDivider(clean_line) THEN [st EXCEPT !.found_split = TRUE]
        ELSE IF ~st.found_split
             THEN IF ~st.title_skipped
                  THEN [st EXCEPT !.title_skipped = TRUE]
                  ELSE [st EXCEPT !.author_lines = Append(@, clean_line)]
             ELSE [st EXCEPT !.affiliation_lines = Append(@, clean_line)]

RECURSIVE SegLoop(_, _)
SegLoop(st, lines) ==
    IF lines = <<>> THEN st ELSE SegLoop(SegStep(st, lines[1]), Tail(lines))

\* lines 61-92: parse_data as a function of the text
ParseData(text) ==
    LET st == SegLoop(SegStart, Split(text, "\n"))
    IN  <<Join(st.author_lines, <<"\n">>), Join(st.affiliation_lines, <<"\n">>)>>

SInit ==
    /\ RIdle
    /\ FIdle
    /\ AIdle
    /\ TIdle
    /\ PIdle
    /\ full_text \in DocTexts
    /\ seg = SegStart
    /\ line_no = 1
    /\ author_text = <<>>
    /\ affiliation_text = <<>>
    /\ spc = "loop"

\* lines 69-90: the loop takes the next line
SegLine ==
    /\ spc = "loop"
    /\ line_no <= Len(Split(full_text, "\n"))
    /\ seg' = SegStep(seg, Split(full_text, "\n")[line_no])
    /\ line_no' = line_no + 1
    /\ UNCHANGED <<full_text, author_text, affiliation_text, spc, nots>>

\* line 92: return the two joined blocks
SegReturn ==
    /\ spc = "loop"
    /\ line_no > Len(Split(full_text, "\n"))
    /\ author_text' = Join(seg.author_lines, <<"\n">>)
    /\ affiliation_text' = Join(seg.affiliation_lines, <<"\n">>)
    /\ spc' = "done"
    /\ UNCHANGED <<full_text, seg, line_no, nots>>

SNext ==
    \/ SegLine
    \/ SegReturn

SpecSegment == SInit /\ [][SNext]_vars

(***************************************************************************)
(* author_doc_to_csv.py: parse_affiliations_to_dict(text)                  *)
(***************************************************************************)
\* the lines of the affiliation block the model draws from
AffLines ==
    { <<>>, <<"x", "1">>, <<"2">>, <<"1", " ", "F">>, <<"1", " ", "B">>, <<"1", "B">>,
      <<"1", "2", " ", " ", "M">>, <<" ", "2", " ", "S", " ">>, <<"1", " ", "3", "M">> }

AffTexts ==
    UNION { { Join(ls, <<"\n">>) : ls \in [1..n -> AffLines] } : n \in 1..MaxAffLines }

\* \d+ and \d* at the start of s: the number of characters the greedy run takes
RECURSIVE LeadingDigits(_)
LeadingDigits(s) ==
    IF s = <<>> \/ ~IsDigit(s[1]) THEN 0 ELSE 1 + LeadingDigits(Tail(s))

\* \s* at the start of s: the number of characters the greedy run takes
RECURSIVE LeadingSpaces(_)
LeadingSpaces(s) ==
    IF s = <<>> \/ ~IsSpace(s[1]) THEN 0 ELSE 1 + LeadingSpaces(Tail(s))

\* line 103: re.match(r'^(\d+)\s*(.*)', line): <<matched, group 1, group 2>>
AffMatch(line) ==
    LET n == LeadingDigits(line)
        rest == SubSeq(line, n + 1, Len(line))
        w == LeadingSpaces(rest)
    IN  IF n = 0 THEN <<FALSE, <<>>, <<>>>>
        ELSE <<TRUE, SubSeq(line, 1, n), SubSeq(rest, w + 1, Len(rest))>>

\* an insertion that keeps the text an id already has
AffStoreFirst(dict, aff_id, aff_text) ==
    IF HasKey(dict, aff_id) THEN dict ELSE Append(dict, <<aff_id, aff_text>>)

\* line 107: affiliations[aff_id] = aff_text
AffStore(dict, aff_id, aff_text) == Put(dict, aff_id, aff_text)

\* line 98: lines = text.strip().split('\n')
AffSplit(text) == Split(Strip(text), "\n")

\* lines 100-107: one pass of the loop body
AffStep(dict, raw) ==
    LET line == Strip(raw)
        match == AffMatch(line)
    IN  IF match[1] THEN AffStore(dict, match[2], match[3]) ELSE dict

RECURSIVE AffLoop(_, _)
AffLoop(dict, lines) ==
    IF lines = <<>> THEN dict ELSE AffLoop(AffStep(dict, lines[1]), Tail(lines))

\* lines 95-109: parse_affiliations_to_dict as a function of the text
ParseAffiliationsToDict(text) == AffLoop(<<>>, AffSplit(text))

FInit ==
    /\ RIdle
    /\ SIdle
    /\ AIdle
    /\ TIdle
    /\ PIdle
    /\ text_f \in AffTexts
    /\ affiliations = <<>>
    /\ line_f = 1
    /\ fpc = "loop"

\* lines 100-107: a line that matches is stored under its id
AffLineStored ==
    /\ fpc = "loop"
    /\ line_f <= Len(AffSplit(text_f))
    /\ AffMatch(Strip(AffSplit(text_f)[line_f]))[1]
    /\ affiliations' = AffStep(affiliations, AffSplit(text_f)[line_f])
    /\ line_f' = line_f + 1
    /\ UNCHANGED <<text_f, fpc, notf>>

\* lines 100-104: a line that does not match is passed over
AffLineSkipped ==
    /\ fpc = "loop"
    /\ line_f <= Len(AffSplit(text_f))
    /\ ~AffMatch(Strip(AffSplit(text_f)[line_f]))[1]
    /\ affiliations' = AffStep(affiliations, AffSplit(text_f)[line_f])
    /\ line_f' = line_f + 1
    /\ UNCHANGED <<text_f, fpc, notf>>

\* line 109: return affiliations
AffReturn ==
    /\ fpc = "loop"
    /\ line_f > Len(AffSplit(text_f))
    /\ fpc' = "done"
    /\ UNCHANGED <<text_f, affiliations, line_f, notf>>

FNext ==
    \/ AffLineStored
    \/ AffLineSkipped
    \/ AffReturn

SpecAffiliations == FInit /\ [][FNext]_vars

(***************************************************************************)
(* author_doc_to_csv.py: parse_authors_to_list(text)                       *)
(***************************************************************************)
\* the author entries the model draws from: the tokens of the name, and the
\* the authors a block can list with a digit run: the tokens of the name and
\* the entry as written in the block (the name, then its digit run)
AuthorEntries ==
    { [tokens |-> << <<"D", "o">> >>,
       written |-> <<"D", "o", "1">>],
      [tokens |-> << <<"J">>, <<"D", "o">> >>,
       written |-> <<"J", " ", "D", "o", "1", ",", "2">>],
      [tokens |-> << <<"J">>, <<"A", ".">>, <<"D", "o">> >>,
       written |-> <<"J", " ", "A", ".", " ", "D", "o", "1", "2">>],
      [tokens |-> << <<"J">>, <<"L", "i">> >>,
       written |-> <<"J", "\n", "L", "i", "2">>],
      [tokens |-> << <<"A", ".">>, <<"L", "i">> >>,
       written |-> <<"A", ".", " ", " ", "L", "i", " ", "3">>],
      [tokens |-> << <<"K">> >>,
       written |-> <<"K", "1", ",", " ", "2">>] }

\* the authors a block can list without any digit run
BareEntries ==
    { [tokens |-> << <<"M">>, <<"N", "g">> >>,
       written |-> <<"M", " ", "N", "g">>],
      [tokens |-> << <<"B", "o">> >>,
       written |-> <<"B", "o">>] }

\* what is written between two entries of the block
AuthorSeparators == { <<",", " ">>, <<"\n">>, <<",">> }

\* an entry of a block: the separator written before it, the entry as written,
\* and whether it is written without a digit run
BlockPart(sep, e) == [sep |-> sep, written |-> e.written, bare |-> e \in BareEntries]

\* the blocks of n entries, each with the names it lists, its entries and its text
RECURSIVE BlocksOfLen(_)
BlocksOfLen(n) ==
    IF n = 1
    THEN { [listed |-> <<e.tokens>>, parts |-> <<BlockPart(<<>>, e)>>, text |-> e.written] :
             e \in AuthorEntries \cup BareEntries }
    ELSE { [listed |-> Append(b.listed, e.tokens),
            parts |-> Append(b.parts, BlockPart(sep, e)),
            text |-> b.text \o sep \o e.written] :
             b \in BlocksOfLen(n - 1), sep \in AuthorSeparators,
             e \in AuthorEntries \cup BareEntries }

AuthorBlocks == UNION { BlocksOfLen(n) : n \in 1..MaxListed }

\* line 115: text.replace('\n', ' ')
NewlinesToSpaces(s) == [p \in 1..Len(s) |-> IF s[p] = "\n" THEN " " ELSE s[p]]

\* line 115: clean_text
CleanText(text) == Strip(NewlinesToSpaces(text))

\* [\d,]* at the start of s: the number of characters the greedy run takes
RECURSIVE LeadingDigitsCommas(_)
LeadingDigitsCommas(s) ==
    IF s = <<>> \/ ~(IsDigit(s[1]) \/ s[1] = ",") THEN 0
    ELSE 1 + LeadingDigitsCommas(Tail(s))

\* a match whose group 1 starts after the last comma before the digit run, so
\* that a name is never taken across a comma
AuthorMatchAfterComma(s, from) ==
    LET starts == {p \in from..Len(s) : ~IsDigit(s[p])}
        first == SetMin(starts)
        digits == {p \in (first + 1)..Len(s) : IsDigit(s[p])}
        d == SetMin(digits)
        commas == {p \in first..(d - 1) : s[p] = ","}
        st == IF commas = {} THEN first ELSE SetMax(commas) + 1
        e == d + LeadingDigitsCommas(SubSeq(s, d + 1, Len(s)))
    IN  IF starts = {} THEN [found |-> FALSE]
        ELSE IF digits = {} THEN [found |-> FALSE]
        ELSE [found |-> TRUE, name |-> SubSeq(s, st, d - 1),
              affils |-> SubSeq(s, d, e), next |-> e + 1]

\* lines 119, 123: the next match of ([^\d]+?)(\d[\d,]*) at or after position
\* from: the first non-digit at or after from starts group 1, which runs up to
\* the next digit; group 2 is that digit and the digits and commas after it
AuthorMatch(s, from) ==
    LET starts == {p \in from..Len(s) : ~IsDigit(s[p])}
        st == SetMin(starts)
        digits == {p \in (st + 1)..Len(s) : IsDigit(s[p])}
        d == SetMin(digits)
        e == d + LeadingDigitsCommas(SubSeq(s, d + 1, Len(s)))
    IN  IF starts = {} THEN [found |-> FALSE]
        ELSE IF digits = {} THEN [found |-> FALSE]
        ELSE [found |-> TRUE, name |-> SubSeq(s, st, d - 1),
              affils |-> SubSeq(s, d, e), next |-> e + 1]

\* lines 124-128: name_part
NamePart(group1) == LStripChars(Strip(group1), {",", " "})

\* a split that takes the first token as the last name
NameSplitFirstToken(name_part) ==
    LET name_tokens == SplitWS(name_part)
    IN  IF Len(name_tokens) > 1
        THEN <<Join(Tail(name_tokens), <<" ">>), name_tokens[1]>>
        ELSE <<<<>>, name_part>>

\* lines 134-141: <<first_middle, last_name>>
NameSplit(name_part) ==
    LET name_tokens == SplitWS(name_part)
    IN  IF Len(name_tokens) > 1
        THEN <<Join(SubSeq(name_tokens, 1, Len(name_tokens) - 1), <<" ">>),
               name_tokens[Len(name_tokens)]>>
        ELSE <<<<>>, name_part>>

\* lines 125, 144: affils_part
AffilsPart(group2) == StripChars(Strip(group2), {","})

\* lines 146-150: the record of a match with a name
AuthorRecord(match) ==
    [first_middle |-> NameSplit(NamePart(match.name))[1],
     last_name    |-> NameSplit(NamePart(match.name))[2],
     affiliations |-> AffilsPart(match.affils)]

\* lines 123-150: the records of the matches at or after position from
RECURSIVE AuthorLoop(_, _)
AuthorLoop(s, from) ==
    LET match == AuthorMatch(s, from)
    IN  IF ~match.found THEN <<>>
        ELSE (IF NamePart(match.name) = <<>> THEN <<>> ELSE <<AuthorRecord(match)>>)
             \o AuthorLoop(s, match.next)

\* lines 112-152: parse_authors_to_list as a function of the text
ParseAuthorsToList(text) == AuthorLoop(CleanText(text), 1)

AInit ==
    /\ RIdle
    /\ SIdle
    /\ FIdle
    /\ TIdle
    /\ PIdle
    /\ \E b \in AuthorBlocks :
          /\ listed = b.listed
          /\ block_a = b.parts
          /\ text_a = b.text
    /\ authors = <<>>
    /\ pos_a = 1
    /\ apc = "loop"

\* lines 123-150: a match with a name gives a record
AuthorAppended ==
    /\ apc = "loop"
    /\ LET match == AuthorMatch(CleanText(text_a), pos_a)
       IN  /\ match.found
           /\ NamePart(match.name) # <<>>
           /\ authors' = Append(authors, AuthorRecord(match))
           /\ pos_a' = match.next
    /\ UNCHANGED <<listed, block_a, text_a, apc, nota>>

\* lines 123-131: a match whose name is empty is discarded
AuthorDiscarded ==
    /\ apc = "loop"
    /\ LET match == AuthorMatch(CleanText(text_a), pos_a)
       IN  /\ match.found
           /\ NamePart(match.name) = <<>>
           /\ pos_a' = match.next
    /\ UNCHANGED <<listed, block_a, text_a, authors, apc, nota>>

\* line 152: no further match: return authors
AuthorsReturn ==
    /\ apc = "loop"
    /\ ~AuthorMatch(CleanText(text_a), pos_a).found
    /\ apc' = "done"
    /\ UNCHANGED <<listed, block_a, text_a, authors, pos_a, nota>>

ANext ==
    \/ AuthorAppended
    \/ AuthorDiscarded
    \/ AuthorsReturn

SpecAuthors == AInit /\ [][ANext]_vars

(***************************************************************************)
(* csv_to_author_doc.py: generate_document_xml(authors, affiliations), and *)
(* author_doc_to_csv.py: get_text_from_docx and main on the result.        *)
(* word/document.xml is modelled as its sequence of <w:p> elements, each a *)
(* sequence of <w:r> runs with the character data of their <w:t>.          *)
(***************************************************************************)
\* the author rows the model draws from, each with at least one reference
RosterAuthors ==
    { [first |-> <<>>, last |-> <<"D", "o">>, affils |-> <<"1">>],
      [first |-> <<"J">>, last |-> <<"D", "o">>, affils |-> <<"1", ",", "2">>],
      [first |-> <<"J", " ", "A", ".">>, last |-> <<"L", "i">>, affils |-> <<"1", "2">>],
      [first |-> <<"J">>, last |-> <<"O", "&", "N">>, affils |-> <<"2">>],
      [first |-> <<"J">>, last |-> <<"v", " ", "B">>, affils |-> <<"2", ",", "1">>] }

RosterIds == { <<"1">>, <<"2">>, <<"1", "2">> }

RosterTexts == { <<"M">>, <<"3", " ", "R", "&", "D", "<", "x", ">">>, <<>> }

RECURSIVE RosterDictsOfLen(_)
RosterDictsOfLen(n) ==
    IF n = 0 THEN { <<>> }
    ELSE { Append(d, <<key, text>>) :
             d \in RosterDictsOfLen(n - 1), key \in RosterIds, text \in RosterTexts }

RosterMaps ==
    { d \in UNION { RosterDictsOfLen(n) : n \in 0..MaxRosterAffils } :
        \A p, q \in 1..Len(d) : p # q => d[p][1] # d[q][1] }

RosterLists == UNION { [1..n -> RosterAuthors] : n \in 0..MaxRosterAuthors }

\* line 55: xml.sax.saxutils.escape(text)
RECURSIVE Escape(_)
Escape(s) ==
    IF s = <<>> THEN <<>>
    ELSE (CASE s[1] = "&" -> <<"&", "a", "m", "p", ";">>
            [] s[1] = "<" -> <<"&", "l", "t", ";">>
            [] s[1] = ">" -> <<"&", "g", "t", ";">>
            [] OTHER -> <<s[1]>>) \o Escape(Tail(s))

StartsWith(s, prefix) == Len(s) >= Len(prefix) /\ SubSeq(s, 1, Len(prefix)) = prefix

\* the character data the XML parser gives for escaped text
RECURSIVE Unescape(_)
Unescape(s) ==
    IF s = <<>> THEN <<>>
    ELSE IF StartsWith(s, <<"&", "a", "m", "p", ";">>)
         THEN <<"&">> \o Unescape(SubSeq(s, 6, Len(s)))
    ELSE IF StartsWith(s, <<"&", "l", "t", ";">>)
         THEN <<"<">> \o Unescape(SubSeq(s, 5, Len(s)))
    ELSE IF StartsWith(s, <<"&", "g", "t", ";">>)
         THEN <<">">> \o Unescape(SubSeq(s, 5, Len(s)))
    ELSE <<s[1]>> \o Unescape(Tail(s))

\* lines 43-57: create_run_xml
create_run_xml(text, superscription, bold) ==
    [t |-> Escape(text), superscript |-> superscription, b |-> bold]

\* lines 59-61: create_paragraph_xml
create_paragraph_xml(runs) == runs

\* a name written last name first
FullNameLastFirst(auth) == Strip(auth.last \o <<" ">> \o auth.first)

\* line 114: full_name = f"{auth['first']} {auth['last']}".strip()
FullName(auth) == Strip(auth.first \o <<" ">> \o auth.last)

\* lines 112-123: the runs of one author: name, references, separator
AuthorRuns(auths, i) ==
    <<create_run_xml(FullName(auths[i]), FALSE, FALSE)>>
    \o (IF auths[i].affils # <<>>
        THEN <<create_run_xml(auths[i].affils, TRUE, FALSE)>> ELSE <<>>)
    \o (IF i < Len(auths) THEN <<create_run_xml(<<",", " ">>, FALSE, FALSE)>> ELSE <<>>)

\* int(x) for a string of digits
RECURSIVE IntOf(_)
IntOf(x) ==
    IF x = <<>> THEN 0
    ELSE 10 * IntOf(SubSeq(x, 1, Len(x) - 1))
         + (CHOOSE d \in 0..9 : Digits[d + 1] = x[Len(x)])

\* line 135: x.isdigit()
AllDigits(x) == x # <<>> /\ \A p \in 1..Len(x) : IsDigit(x[p])

\* ord(c) for the characters of the ids the model draws from
Ord(c) ==
    CASE c = " " -> 32
      [] IsDigit(c) -> 48 + (CHOOSE d \in 0..9 : Digits[d + 1] = c)
      [] c = "A" -> 65
      [] c = "B" -> 66
      [] c = "a" -> 97
      [] c = "b" -> 98
      [] OTHER -> 127

\* line 135: x <= y for two str keys: the comparison of Python strings
RECURSIVE StrLe(_, _)
StrLe(x, y) ==
    IF x = <<>> THEN TRUE
    ELSE IF y = <<>> THEN FALSE
    ELSE IF x[1] = y[1] THEN StrLe(Tail(x), Tail(y))
    ELSE Ord(x[1]) < Ord(y[1])

\* line 135: the key of an id: int(x) if x.isdigit() else x
SortKey(x) ==
    IF AllDigits(x) THEN [type |-> "int", value |-> IntOf(x)]
    ELSE [type |-> "str", value |-> x]

\* line 135: key(x) <= key(y) for two keys of the same type
KeyLe(x, y) ==
    IF SortKey(x).type = "int" THEN SortKey(x).value <= SortKey(y).value
    ELSE StrLe(SortKey(x).value, SortKey(y).value)

\* line 135: sorted() compares an int key with a str key and raises TypeError
\* when the keys are not all of one type
SortRaises(ids) ==
    \E p, q \in 1..Len(ids) : SortKey(ids[p]).type # SortKey(ids[q]).type

\* line 135: sorted(affiliations.keys(), key=...) for keys of one type: a
\* stable sort, computed as an insertion sort
RECURSIVE SortedIds(_)
SortedIds(ids) ==
    IF ids = <<>> THEN <<>>
    ELSE LET front == SortedIds(SubSeq(ids, 1, Len(ids) - 1))
             x == ids[Len(ids)]
             before == {p \in 1..Len(front) : KeyLe(front[p], x)}
             at == IF before = {} THEN 0 ELSE SetMax(before)
         IN  SubSeq(front, 1, at) \o <<x>> \o SubSeq(front, at + 1, Len(front))

\* lines 137-151: the paragraph of one affiliation
AffiliationParagraph(affs, aff_id) ==
    create_paragraph_xml(<<create_run_xml(aff_id, TRUE, FALSE),
                           create_run_xml(<<" ">> \o Get(affs, aff_id), FALSE, FALSE)>>)

\* lines 102-153: the <w:p> elements of the body
generate_document_xml(auths, affs) ==
    LET sorted_ids == SortedIds([p \in 1..Len(affs) |-> affs[p][1]])
    IN  <<create_paragraph_xml(<<create_run_xml(<<"A", "u", "t", "h", "o", "r", "s">>, FALSE, TRUE)>>)>>
        \o <<create_paragraph_xml(Flatten([i \in 1..Len(auths) |-> AuthorRuns(auths, i)]))>>
        \o <<create_paragraph_xml(<<>>)>>
        \o <<create_paragraph_xml(<<create_run_xml(
                <<"A", "f", "f", "i", "l", "i", "a", "t", "i", "o", "n", "s">>, FALSE, TRUE)>>)>>
        \o [p \in 1..Len(sorted_ids) |-> AffiliationParagraph(affs, sorted_ids[p])]

\* lines 34-38: the text nodes of a paragraph that have text
ParaText(para) ==
    SelectSeq([r \in 1..Len(para) |-> Unescape(para[r].t)], LAMBDA t : t # <<>>)

\* lines 29-43: get_text_from_docx on a readable document
get_text_from_docx(doc) ==
    LET paras == SelectSeq([p \in 1..Len(doc) |-> ParaText(doc[p])], LAMBDA pt : pt # <<>>)
    IN  Join([p \in 1..Len(paras) |-> Flatten(paras[p])], <<"\n">>)

TInit ==
    /\ RIdle
    /\ SIdle
    /\ FIdle
    /\ AIdle
    /\ PIdle
    /\ authors_in \in RosterLists
    /\ affiliations_in \in RosterMaps
    /\ document = <<>>
    /\ tpc = "roster"

\* csv_to_author_doc.py line 190: doc_xml = generate_document_xml(...)
Generate ==
    /\ tpc = "roster"
    /\ ~SortRaises([p \in 1..Len(affiliations_in) |-> affiliations_in[p][1]])
    /\ document' = generate_document_xml(authors_in, affiliations_in)
    /\ tpc' = "generated"
    /\ UNCHANGED <<authors_in, affiliations_in, rvars, svars, fvars, avars, pvars>>

\* author_doc_to_csv.py line 181: full_text = get_text_from_docx(input_filename)
GetText ==
    /\ tpc = "generated"
    /\ full_text' = get_text_from_docx(document)
    /\ tpc' = "read"
    /\ UNCHANGED <<authors_in, affiliations_in, document, rvars, fvars, avars, pvars,
                   seg, line_no, author_text, affiliation_text, spc>>

\* author_doc_to_csv.py line 184: authors_text, affiliations_text = parse_data(full_text)
MainParseData ==
    /\ tpc = "read"
    /\ author_text' = ParseData(full_text)[1]
    /\ affiliation_text' = ParseData(full_text)[2]
    /\ tpc' = "segmented"
    /\ UNCHANGED <<authors_in, affiliations_in, document, rvars, fvars, avars, pvars,
                   full_text, seg, line_no, spc>>

\* author_doc_to_csv.py line 190: aff_dict = parse_affiliations_to_dict(affiliations_text)
MainParseAffiliations ==
    /\ tpc = "segmented"
    /\ affiliations' = ParseAffiliationsToDict(affiliation_text)
    /\ tpc' = "affiliations"
    /\ UNCHANGED <<authors_in, affiliations_in, document, rvars, svars, avars, pvars,
                   text_f, line_f, fpc>>

\* author_doc_to_csv.py line 193: author_list = parse_authors_to_list(authors_text)
MainParseAuthors ==
    /\ tpc = "affiliations"
    /\ authors' = ParseAuthorsToList(author_text)
    /\ tpc' = "parsed"
    /\ UNCHANGED <<authors_in, affiliations_in, document, rvars, svars, fvars, pvars,
                   listed, block_a, text_a, pos_a, apc>>

TNext ==
    \/ Generate
    \/ GetText
    \/ MainParseData
    \/ MainParseAffiliations
    \/ MainParseAuthors

SpecRoundTrip == TInit /\ [][TNext]_vars

(***************************************************************************)
(* csv_to_author_doc.py: generate_document_xml on the rows read_csv_data   *)
(* takes from any two CSV files: the ids are whatever column 1 holds.      *)
(***************************************************************************)
\* the ids of the affiliation rows the model draws from
RenderIds ==
    { <<"1">>, <<"2">>, <<"1", "0">>, <<"0", "1">>,
      <<"A">>, <<"b">>, <<"a", "b">>, <<>> }

RenderTexts == { <<"M", "I", "T">> }

RECURSIVE RenderDictsOfLen(_)
RenderDictsOfLen(n) ==
    IF n = 0 THEN { <<>> }
    ELSE { Append(d, <<key, text>>) :
             d \in RenderDictsOfLen(n - 1), key \in RenderIds, text \in RenderTexts }

RenderMaps ==
    { d \in UNION { RenderDictsOfLen(n) : n \in 0..MaxRenderAffils } :
        \A p, q \in 1..Len(d) : p # q => d[p][1] # d[q][1] }

RenderLists == UNION { [1..n -> RosterAuthors] : n \in 0..MaxRenderAuthors }

RenderInit ==
    /\ RIdle
    /\ SIdle
    /\ FIdle
    /\ AIdle
    /\ PIdle
    /\ authors_in \in RenderLists
    /\ affiliations_in \in RenderMaps
    /\ document = <<>>
    /\ tpc = "roster"

\* csv_to_author_doc.py lines 135, 190: sorted() raises, generate_document_xml
\* and main do not catch it
GenerateRaises ==
    /\ tpc = "roster"
    /\ SortRaises([p \in 1..Len(affiliations_in) |-> affiliations_in[p][1]])
    /\ tpc' = "raised"
    /\ UNCHANGED <<authors_in, affiliations_in, document, rvars, svars, fvars, avars, pvars>>

RenderNext ==
    \/ Generate
    \/ GenerateRaises

SpecRender == RenderInit /\ [][RenderNext]_vars

(***************************************************************************)
(* tidy_authorship.py: main and run_step, with the main of each of the     *)
(* three scripts as the process a step runs.  The file system is the state *)
(* of the five files the scripts write; what the environment decides (is   *)
(* the input document there and readable, which files cannot be opened for *)
(* writing, which files an earlier run left behind) is drawn in Init.      *)
(***************************************************************************)
\* tidy_authorship.py lines 52-57, and the output document
IntermediateFiles ==
    {"names.csv", "affiliations.csv", "reordered_names.csv", "reordered_affiliations.csv"}

OutputFiles == IntermediateFiles \cup {"output.docx"}

\* the process that is started: the driver, or one script on its own
EntryPoints == {"pipeline", "extract", "renumber", "render"}

FirstPc(e) ==
    CASE e = "pipeline" -> "launch"
      [] e = "extract" -> "s1_read"
      [] e = "renumber" -> "s2_read_affiliations"
      [] e = "render" -> "s3_read_affiliations"

PInit ==
    /\ RIdle
    /\ SIdle
    /\ FIdle
    /\ AIdle
    /\ TIdle
    /\ entry \in EntryPoints
    /\ input_docx \in {"ok", "missing", "unreadable"}
    /\ unwritable \in SUBSET OutputFiles
    /\ launchable \in BOOLEAN
    /\ keep_csv \in BOOLEAN
    /\ entry # "pipeline" => launchable /\ ~keep_csv
    /\ files \in [OutputFiles -> {"absent", "old"}]
    /\ files["output.docx"] = "absent"
    /\ exit_status = [n \in 1..3 |-> -1]
    /\ driver_status = -1
    /\ fatal = {}
    /\ cleaned = FALSE
    /\ ppc = FirstPc(entry)

PEnv == <<entry, input_docx, unwritable, launchable, keep_csv>>

\* a script's process ends with a status
Exit(n, status) ==
    /\ exit_status' = [exit_status EXCEPT ![n] = status]
    /\ ppc' = IF entry = "pipeline" THEN "returned" ELSE "exited"

\* renumber_affiliations.py lines 121-122, 132-133, 169-174: write_csvs prints
\* an error it meets and returns, main prints "Done." and the process ends
\* normally, whether or not the files were written
RenumberExitStatus == 0

\* tidy_authorship.py lines 12-21: check_call cannot start the interpreter
LaunchFails ==
    /\ ppc = "launch"
    /\ ~launchable
    /\ driver_status' = 1
    /\ ppc' = "aborted"
    /\ UNCHANGED <<PEnv, files, exit_status, fatal, cleaned, notp>>

\* tidy_authorship.py lines 62-65: step 1 is started
Launch ==
    /\ ppc = "launch"
    /\ launchable
    /\ ppc' = "s1_read"
    /\ UNCHANGED <<PEnv, files, exit_status, driver_status, fatal, cleaned, notp>>

\* author_doc_to_csv.py lines 17-19, 45-47: the document is missing or unreadable
S1GetTextFails ==
    /\ ppc = "s1_read"
    /\ input_docx # "ok"
    /\ fatal' = fatal \cup {1}
    /\ Exit(1, 1)
    /\ UNCHANGED <<PEnv, files, driver_status, cleaned, notp>>

\* author_doc_to_csv.py lines 181-194: the document is read and parsed
S1GetTextOk ==
    /\ ppc = "s1_read"
    /\ input_docx = "ok"
    /\ ppc' = "s1_write_affiliations"
    /\ UNCHANGED <<PEnv, files, exit_status, driver_status, fatal, cleaned, notp>>

\* author_doc_to_csv.py line 198: open raises, nothing catches it
S1WriteAffiliationsFails ==
    /\ ppc = "s1_write_affiliations"
    /\ "affiliations.csv" \in unwritable
    /\ fatal' = fatal \cup {1}
    /\ Exit(1, 1)
    /\ UNCHANGED <<PEnv, files, driver_status, cleaned, notp>>

\* author_doc_to_csv.py lines 198-202
S1WriteAffiliationsOk ==
    /\ ppc = "s1_write_affiliations"
    /\ "affiliations.csv" \notin unwritable
    /\ files' = [files EXCEPT !["affiliations.csv"] = "new"]
    /\ ppc' = "s1_write_names"
    /\ UNCHANGED <<PEnv, exit_status, driver_status, fatal, cleaned, notp>>

\* author_doc_to_csv.py line 206: open raises, nothing catches it
S1WriteNamesFails ==
    /\ ppc = "s1_write_names"
    /\ "names.csv" \in unwritable
    /\ fatal' = fatal \cup {1}
    /\ Exit(1, 1)
    /\ UNCHANGED <<PEnv, files, driver_status, cleaned, notp>>

\* author_doc_to_csv.py lines 206-216
S1WriteNamesOk ==
    /\ ppc = "s1_write_names"
    /\ "names.csv" \notin unwritable
    /\ files' = [files EXCEPT !["names.csv"] = "new"]
    /\ Exit(1, 0)
    /\ UNCHANGED <<PEnv, driver_status, fatal, cleaned, notp>>

\* renumber_affiliations.py lines 81-91
S2ReadAffiliationsFails ==
    /\ ppc = "s2_read_affiliations"
    /\ files["affiliations.csv"] = "absent"
    /\ fatal' = fatal \cup {2}
    /\ Exit(2, 1)
    /\ UNCHANGED <<PEnv, files, driver_status, cleaned, notp>>

S2ReadAffiliationsOk ==
    /\ ppc = "s2_read_affiliations"
    /\ files["affiliations.csv"] # "absent"
    /\ ppc' = "s2_read_names"
    /\ UNCHANGED <<PEnv, files, exit_status, driver_status, fatal, cleaned, notp>>

\* renumber_affiliations.py lines 95-108
S2ReadNamesFails ==
    /\ ppc = "s2_read_names"
    /\ files["names.csv"] = "absent"
    /\ fatal' = fatal \cup {2}
    /\ Exit(2, 1)
    /\ UNCHANGED <<PEnv, files, driver_status, cleaned, notp>>

S2ReadNamesOk ==
    /\ ppc = "s2_read_names"
    /\ files["names.csv"] # "absent"
    /\ ppc' = "s2_write_affiliations"
    /\ UNCHANGED <<PEnv, files, exit_status, driver_status, fatal, cleaned, notp>>

\* renumber_affiliations.py lines 114-122: the error is printed, write_csvs goes on
S2WriteAffiliationsFails ==
    /\ ppc = "s2_write_affiliations"
    /\ "reordered_affiliations.csv" \in unwritable
    /\ fatal' = fatal \cup {2}
    /\ ppc' = "s2_write_names"
    /\ UNCHANGED <<PEnv, files, exit_status, driver_status, cleaned, notp>>

S2WriteAffiliationsOk ==
    /\ ppc = "s2_write_affiliations"
    /\ "reordered_affiliations.csv" \notin unwritable
    /\ files' = [files EXCEPT !["reordered_affiliations.csv"] = "new"]
    /\ ppc' = "s2_write_names"
    /\ UNCHANGED <<PEnv, exit_status, driver_status, fatal, cleaned, notp>>

\* renumber_affiliations.py lines 125-133, 171: the error is printed, main ends
S2WriteNamesFails ==
    /\ ppc = "s2_write_names"
    /\ "reordered_names.csv" \in unwritable
    /\ fatal' = fatal \cup {2}
    /\ Exit(2, RenumberExitStatus)
    /\ UNCHANGED <<PEnv, files, driver_status, cleaned, notp>>

\* renumber_affiliations.py lines 125-131, 171
S2WriteNamesOk ==
    /\ ppc = "s2_write_names"
    /\ "reordered_names.csv" \notin unwritable
    /\ files' = [files EXCEPT !["reordered_names.csv"] = "new"]
    /\ Exit(2, RenumberExitStatus)
    /\ UNCHANGED <<PEnv, driver_status, fatal, cleaned, notp>>

\* csv_to_author_doc.py lines 68-78
S3ReadAffiliationsFails ==
    /\ ppc = "s3_read_affiliations"
    /\ files["reordered_affiliations.csv"] = "absent"
    /\ fatal' = fatal \cup {3}
    /\ Exit(3, 1)
    /\ UNCHANGED <<PEnv, files, driver_status, cleaned, notp>>

S3ReadAffiliationsOk ==
    /\ ppc = "s3_read_affiliations"
    /\ files["reordered_affiliations.csv"] # "absent"
    /\ ppc' = "s3_read_names"
    /\ UNCHANGED <<PEnv, files, exit_status, driver_status, fatal, cleaned, notp>>

\* csv_to_author_doc.py lines 82-95
S3ReadNamesFails ==
    /\ ppc = "s3_read_names"
    /\ files["reordered_names.csv"] = "absent"
    /\ fatal' = fatal \cup {3}
    /\ Exit(3, 1)
    /\ UNCHANGED <<PEnv, files, driver_status, cleaned, notp>>

S3ReadNamesOk ==
    /\ ppc = "s3_read_names"
    /\ files["reordered_names.csv"] # "absent"
    /\ ppc' = "s3_write"
    /\ UNCHANGED <<PEnv, files, exit_status, driver_status, fatal, cleaned, notp>>

\* csv_to_author_doc.py lines 157-167
S3WriteDocxFails ==
    /\ ppc = "s3_write"
    /\ "output.docx" \in unwritable
    /\ fatal' = fatal \cup {3}
    /\ Exit(3, 1)
    /\ UNCHANGED <<PEnv, files, driver_status, cleaned, notp>>

\* csv_to_author_doc.py lines 157-164, 195
S3WriteDocxOk ==
    /\ ppc = "s3_write"
    /\ "output.docx" \notin unwritable
    /\ files' = [files EXCEPT !["output.docx"] = "new"]
    /\ Exit(3, 0)
    /\ UNCHANGED <<PEnv, driver_status, fatal, cleaned, notp>>

\* the step of the driver whose process has just ended
CurrentStep == SetMax({n \in 1..3 : exit_status[n] # -1})

\* tidy_authorship.py lines 14-15: check_call returns, the next step is started
StepSucceeded ==
    /\ ppc = "returned"
    /\ exit_status[CurrentStep] = 0
    /\ ppc' = CASE CurrentStep = 1 -> "s2_read_affiliations"
                [] CurrentStep = 2 -> "s3_read_affiliations"
                [] CurrentStep = 3 -> "cleanup"
    /\ UNCHANGED <<PEnv, files, exit_status, driver_status, fatal, cleaned, notp>>

\* tidy_authorship.py lines 16-18: CalledProcessError, sys.exit(1)
StepFailed ==
    /\ ppc = "returned"
    /\ exit_status[CurrentStep] # 0
    /\ driver_status' = 1
    /\ ppc' = "aborted"
    /\ UNCHANGED <<PEnv, files, exit_status, fatal, cleaned, notp>>

\* tidy_authorship.py lines 86-93, 97
Cleanup ==
    /\ ppc = "cleanup"
    /\ ~keep_csv
    /\ files' = [f \in OutputFiles |-> IF f \in IntermediateFiles THEN "absent" ELSE files[f]]
    /\ cleaned' = TRUE
    /\ driver_status' = 0
    /\ ppc' = "finished"
    /\ UNCHANGED <<PEnv, exit_status, fatal, notp>>

\* tidy_authorship.py lines 94-97
SkipCleanup ==
    /\ ppc = "cleanup"
    /\ keep_csv
    /\ driver_status' = 0
    /\ ppc' = "finished"
    /\ UNCHANGED <<PEnv, files, exit_status, fatal, cleaned, notp>>

PNext ==
    \/ LaunchFails
    \/ Launch
    \/ S1GetTextFails
    \/ S1GetTextOk
    \/ S1WriteAffiliationsFails
    \/ S1WriteAffiliationsOk
    \/ S1WriteNamesFails
    \/ S1WriteNamesOk
    \/ S2ReadAffiliationsFails
    \/ S2ReadAffiliationsOk
    \/ S2ReadNamesFails
    \/ S2ReadNamesOk
    \/ S2WriteAffiliationsFails
    \/ S2WriteAffiliationsOk
    \/ S2WriteNamesFails
    \/ S2WriteNamesOk
    \/ S3ReadAffiliationsFails
    \/ S3ReadAffiliationsOk
    \/ S3ReadNamesFails
    \/ S3ReadNamesOk
    \/ S3WriteDocxFails
    \/ S3WriteDocxOk
    \/ StepSucceeded
    \/ StepFailed
    \/ Cleanup
    \/ SkipCleanup

SpecPipeline == PInit /\ [][PNext]_vars

(***************************************************************************)
(* Properties of the renumbering engine.                                   *)
(***************************************************************************)
\* the items of a sequence, each kept at its first occurrence only
FirstOccurrences(seq) ==
    LET keep == {p \in 1..Len(seq) : \A q \in 1..(p - 1) : seq[q] # seq[p]}
        RECURSIVE Pick(_)
        Pick(p) == IF p > Len(seq) THEN <<>>
                   ELSE (IF p \in keep THEN <<seq[p]>> ELSE <<>>) \o Pick(p + 1)
    IN  Pick(1)

Range(seq) == {seq[p] : p \in 1..Len(seq)}

\* the references of the authors of a list, authors in list order, each left to right
RefsOf(names) == Flatten([p \in 1..Len(names) |-> OriginalIds(names[p].affils)])

\* the distinct referenced ids, in order of first appearance
Referenced(names) == FirstOccurrences(RefsOf(names))

\* those of them that are keys of the affiliation map
ReferencedKeys(names, affmap) ==
    SelectSeq(Referenced(names), LAMBDA oid : HasKey(affmap, oid))

\* the entries of the map no author references, in the map's order
Orphans(names, affmap) ==
    SelectSeq(affmap, LAMBDA e : e[1] \notin Range(RefsOf(names)))

AuthorPassOver == rpc \in {"orphans", "done"}

\* C1: new ids are assigned in order of first appearance: the i-th distinct
\* referenced id that is a key of the affiliation map gets new id i, the counter
\* has advanced exactly once per such id when the author pass ends (and once per
\* entry of the output list at any time), and the output list holds
\* (new id, original text) in assignment order.
C1_FirstAppearanceOrder ==
    /\ current_new_id = Len(new_affiliations_list) + 1
    /\ AuthorPassOver =>
         LET F == ReferencedKeys(names_data, affiliations_map)
         IN  /\ Len(new_affiliations_list) >= Len(F)
             /\ (rpc = "orphans" /\ oi = 1) => current_new_id = Len(F) + 1
             /\ \A i \in 1..Len(F) :
                   /\ Get(old_to_new_id_map, F[i]) = Str(i)
                   /\ new_affiliations_list[i] = <<Str(i), Get(affiliations_map, F[i])>>

\* two authors share an id and a second id follows it
C1_Witness ==
    /\ rpc = "done"
    /\ run = 1
    /\ Len(names_data) = 2
    /\ OriginalIds(names_data[1].affils) = << <<"2">>, <<"1">> >>
    /\ OriginalIds(names_data[2].affils) = << <<"1">>, <<"2">> >>
    /\ new_affiliations_list = << << <<"1">>, "Stanford" >>, << <<"2">>, "MIT" >> >>

\* the ids of the output affiliation list
OutputIds == {new_affiliations_list[p][1] : p \in 1..Len(new_affiliations_list)}

\* C2: renumbering preserves referential integrity: a reference to a key of the
\* map is rewritten to an id the output list pairs with exactly the original
\* text, and a reference to an id that is not a key of the map is rewritten to an
\* id that no entry of the output list carries.
C2_ReferentialIntegrity ==
    rpc = "done" =>
      \A p \in 1..Len(names_data) :
        LET old == OriginalIds(names_data[p].affils)
            new == OriginalIds(updated_names_data[p].affils)
        IN  /\ Len(new) = Len(old)
            /\ \A q \in 1..Len(old) :
                 IF HasKey(affiliations_map, old[q])
                 THEN /\ new[q] \in OutputIds
                      /\ \A e \in Range(new_affiliations_list) :
                            e[1] = new[q] => e[2] = Get(affiliations_map, old[q])
                 ELSE new[q] \notin OutputIds

Canonical(names, affmap) ==
    /\ Len(affmap) >= 1
    /\ Keys(affmap) = {Str(i) : i \in 1..Len(affmap)}
    /\ Referenced(names) = [i \in 1..Len(affmap) |-> Str(i)]

\* C4: on canonical input the engine returns every author's reference list
\* unchanged and the affiliation list [(1, text1), .., (N, textN)], and the
\* engine run again on that output returns the same output.
C4_IdempotentOnCanonical ==
    /\ (rpc = "done" /\ run = 1 /\ Canonical(names_data, affiliations_map)) =>
          /\ Len(updated_names_data) = Len(names_data)
          /\ \A p \in 1..Len(names_data) :
                OriginalIds(updated_names_data[p].affils) = OriginalIds(names_data[p].affils)
          /\ new_affiliations_list =
                [i \in 1..Len(affiliations_map) |-> <<Str(i), Get(affiliations_map, Str(i))>>]
    /\ (rpc = "done" /\ run = 2 /\ Canonical(first_input[1], first_input[2])) =>
          <<new_affiliations_list, updated_names_data>> = first_output

\* the second run has ended on a canonical first input of two ids, the map
\* holding them in the other order
C4_Witness ==
    /\ rpc = "done"
    /\ run = 2
    /\ Canonical(first_input[1], first_input[2])
    /\ Len(first_input[2]) = 2
    /\ first_input[2][1][1] = <<"2">>
    /\ Len(first_input[1]) = 2
    /\ first_input[1][2].affils = <<"1", ",", " ", "2", ",">>

\* the ids of an author's references that are not keys of the map
MissingRefs(author) ==
    {oid \in Range(OriginalIds(author.affils)) : ~HasKey(affiliations_map, oid)}

\* C5 as stated: every author that references an id that is not a key of the map
\* is named, with the id, by a warning; the id is mapped to itself, takes no
\* sequential id and no entry of the output list; the run completes.
C5_WarningPerAuthor ==
    rpc = "done" =>
         /\ Len(updated_names_data) = Len(names_data)
         /\ Len(new_affiliations_list) = Len(affiliations_map)
         /\ \A p \in 1..Len(names_data) : \A oid \in MissingRefs(names_data[p]) :
               /\ WarningFor(names_data[p], oid) \in Range(warnings)
               /\ Get(old_to_new_id_map, oid) = oid

\* the next reference is seen for the first time and is not a key of the map
AtGap ==
    /\ InAuthor
    /\ ri <= Len(original_ids)
    /\ ~HasKey(old_to_new_id_map, original_ids[ri])
    /\ ~HasKey(affiliations_map, original_ids[ri])

\* the first author, in list order, that references the id
FirstAuthorOf(oid) ==
    names_data[SetMin({p \in 1..Len(names_data) : oid \in Range(OriginalIds(names_data[p].affils))})]

\* C5 as amended: the first time a missing id is met (at the first author that
\* references it) a warning naming that author and the id is emitted, and only
\* then; the step records id -> id, leaves the counter and the output list as
\* they are and moves on to the next reference of the same author; when the
\* engine returns every author has been processed.
C5_WarningAtFirstReference ==
    /\ [][AtGap =>
            /\ warnings' = Append(warnings, <<names_data[ai].last, original_ids[ri]>>)
            /\ HasKey(old_to_new_id_map', original_ids[ri])
            /\ Get(old_to_new_id_map', original_ids[ri]) = original_ids[ri]
            /\ current_new_id' = current_new_id
            /\ new_affiliations_list' = new_affiliations_list
            /\ ai' = ai /\ ri' = ri + 1 /\ rpc' = "authors"]_vars
    /\ [](rpc = "done" =>
            /\ Len(updated_names_data) = Len(names_data)
            /\ Len(new_affiliations_list) = Len(affiliations_map)
            /\ Len(warnings) = Cardinality(UNION {MissingRefs(names_data[p]) : p \in 1..Len(names_data)})
            /\ \A p \in 1..Len(names_data) : \A oid \in MissingRefs(names_data[p]) :
                  /\ <<FirstAuthorOf(oid).last, oid>> \in Range(warnings)
                  /\ Get(old_to_new_id_map, oid) = oid)

\* two authors reference the same missing id, the second then a key of the map
C5_Witness ==
    /\ rpc = "done"
    /\ run = 1
    /\ Len(names_data) = 2
    /\ names_data[1].affils = <<"9">>
    /\ names_data[2].affils = <<"9", ",", "1">>
    /\ warnings = << <<"Doe", <<"9">> >> >>
    /\ updated_names_data[2].affils = <<"9", ",", "1">>
    /\ Len(new_affiliations_list) = 2

\* the values old_to_new_id_map gives the ids of a list, position by position
Remapped(ids) == [i \in 1..Len(ids) |-> Get(old_to_new_id_map, ids[i])]

\* C11: renumbering changes nothing but the id values: every author written to
\* the output stands at the position it has in the input with the same last and
\* first name, its reference list has as many entries as the original, entry i
\* being what old_to_new_id_map gives original entry i (a repeated id is
\* repeated), and once the author pass is over the output list is as long as
\* the input list.
C11_OnlyIdsChange ==
    /\ Len(updated_names_data) <= Len(names_data)
    /\ AuthorPassOver => Len(updated_names_data) = Len(names_data)
    /\ \A p \in 1..Len(updated_names_data) :
          LET before == OriginalIds(names_data[p].affils)
              after == OriginalIds(updated_names_data[p].affils)
          IN  /\ updated_names_data[p].last = names_data[p].last
              /\ updated_names_data[p].first = names_data[p].first
              /\ Len(after) = Len(before)
              /\ \A i \in 1..Len(before) : HasKey(old_to_new_id_map, before[i])
              /\ after = Remapped(before)

\* the first author references the same missing id twice, the second the two
\* keys of the map in the reverse of the map's order; both lists keep their
\* length and order
C11_Witness ==
    /\ rpc = "done"
    /\ run = 1
    /\ Len(names_data) = 2
    /\ names_data[1].affils = <<"9", ",", "9">>
    /\ names_data[2].affils = <<"2", ",", "1">>
    /\ Len(affiliations_map) = 2
    /\ affiliations_map[1][1] = <<"1">>
    /\ affiliations_map[2][1] = <<"2">>
    /\ updated_names_data[1] = [last |-> "Doe", first |-> "J.", affils |-> <<"9", ",", "9">>]
    /\ updated_names_data[2] = [last |-> "Smith", first |-> "J.", affils |-> <<"1", ",", "2">>]

(***************************************************************************)
(* Properties of the text segmenter.                                       *)
(***************************************************************************)
\* the items of a sequence at the positions of a set, in order
RECURSIVE AtPositions(_, _, _)
AtPositions(seq, P, from) ==
    IF from > Len(seq) THEN <<>>
    ELSE (IF from \in P THEN <<seq[from]>> ELSE <<>>) \o AtPositions(seq, P, from + 1)

SentinelText == <<"a", "f", "f", "i", "l", "i", "a", "t", "i", "o", "n", "s">>

\* the classification the segmenter is to make of the lines of a text
Classified(text) ==
    LET raw == Split(text, "\n")
        trimmed == [p \in 1..Len(raw) |-> Strip(raw[p])]
        sentinels == {p \in 1..Len(raw) : Lower(trimmed[p]) = SentinelText}
        first == IF sentinels = {} THEN Len(raw) + 1 ELSE SetMin(sentinels)
        content == {p \in 1..Len(raw) : trimmed[p] # <<>> /\ p \notin sentinels}
        before == {p \in content : p < first}
        title == IF before = {} THEN {} ELSE {SetMin(before)}
    IN  [sentinel |-> sentinels # {},
         title    |-> AtPositions(trimmed, title, 1),
         authors  |-> AtPositions(trimmed, before \ title, 1),
         affils   |-> AtPositions(trimmed, {p \in content : p > first}, 1)]

\* C6: parse_data classifies every line: blank lines and every sentinel line are
\* dropped, the first other non-blank line before the sentinel is dropped as the
\* title, the later non-blank lines before the sentinel are the author block and
\* the non-blank lines after the sentinel are the affiliation block, each in the
\* original order; with no sentinel the affiliation block is empty.
C6_SegmenterClassifiesLines ==
    spc = "done" =>
      LET c == Classified(full_text)
      IN  /\ author_text = Join(c.authors, <<"\n">>)
          /\ affiliation_text = Join(c.affils, <<"\n">>)
          /\ ~c.sentinel => affiliation_text = <<>>
          /\ <<author_text, affiliation_text>> = ParseData(full_text)

\* a title, an author line, a sentinel in mixed case with spaces around it and
\* an affiliation line
C6_Witness ==
    /\ spc = "done"
    /\ Split(full_text, "\n") =
          << <<"T">>, <<" ", "D", "1", " ">>,
             <<" ", "A", "F", "F", "i", "l", "i", "a", "t", "i", "o", "n", "s", " ">>,
             <<"1", " ", "M">> >>
    /\ author_text = <<"D", "1">>
    /\ affiliation_text = <<"1", " ", "M">>

(***************************************************************************)
(* Properties of the affiliation parser.                                   *)
(***************************************************************************)
\* the lines of a text, each trimmed as the parser takes them
TrimmedLines(text) ==
    LET raw == Split(text, "\n") IN [p \in 1..Len(raw) |-> Strip(raw[p])]

StartsWithDigit(line) == line # <<>> /\ IsDigit(line[1])

\* the longest prefix of a line made of digits
DigitRun(line) ==
    SubSeq(line, 1, SetMax({n \in 0..Len(line) : \A p \in 1..n : IsDigit(line[p])}))

\* what follows the digit run and the whitespace after it
Remainder(line) ==
    LET after == SubSeq(line, Len(DigitRun(line)) + 1, Len(line))
    IN  LStripChars(after, {" ", "\t", "\n", "\r"})

\* C8: parse_affiliations_to_dict is last-write-wins: the keys of the result are
\* exactly the leading digit runs of the (trimmed) lines that start with a digit,
\* each key maps to the remainder of the last line carrying it, and a line with
\* no leading digit leaves the map as it is.
C8_LastWriteWins ==
    /\ [](fpc = "done" =>
            LET L == TrimmedLines(text_f)
                led == {p \in 1..Len(L) : StartsWithDigit(L[p])}
            IN  /\ Keys(affiliations) = {DigitRun(L[p]) : p \in led}
                /\ Len(affiliations) = Cardinality(Keys(affiliations))
                /\ \A p \in led :
                      (\A q \in led : q > p => DigitRun(L[q]) # DigitRun(L[p]))
                         => Get(affiliations, DigitRun(L[p])) = Remainder(L[p])
                /\ affiliations = ParseAffiliationsToDict(text_f))
    /\ [][(fpc = "loop" /\ line_f <= Len(AffSplit(text_f))
             /\ ~StartsWithDigit(Strip(AffSplit(text_f)[line_f])))
          => affiliations' = affiliations]_vars

\* "1 F", then a line without digits, then "1B": the id 1 ends with the text B
C8_Witness ==
    /\ fpc = "done"
    /\ TrimmedLines(text_f) = << <<"1", " ", "F">>, <<"x", "1">>, <<"1", "B">> >>
    /\ affiliations = << << <<"1">>, <<"B">> >> >>

(***************************************************************************)
(* Properties of the author parser.                                        *)
(***************************************************************************)
\* C7: for an author block in which every author name is followed by a digit
\* run, parse_authors_to_list returns one record per author, in order, and
\* first_middle + " " + last_name, trimmed, is the author's name with its
\* whitespace normalised: the last token is last_name and the tokens before it,
\* joined by single spaces, are first_middle (empty for a name of one token).
C7_OneRecordPerAuthor ==
    (apc = "done" /\ \A p \in 1..Len(block_a) : ~block_a[p].bare) =>
      /\ Len(authors) = Len(listed)
      /\ authors = ParseAuthorsToList(text_a)
      /\ \A p \in 1..Len(listed) :
            LET tokens == listed[p]
                n == Len(tokens)
            IN  /\ Strip(authors[p].first_middle \o <<" ">> \o authors[p].last_name)
                      = Join(tokens, <<" ">>)
                /\ authors[p].last_name = tokens[n]
                /\ authors[p].first_middle = Join(SubSeq(tokens, 1, n - 1), <<" ">>)

\* an author with a middle name, then on the next line an author whose name
\* wraps over two lines
C7_Witness ==
    /\ apc = "done"
    /\ text_a = <<"J", " ", "A", ".", " ", "D", "o", "1", "2", "\n", "J", "\n", "L", "i", "2">>
    /\ authors = << [first_middle |-> <<"J", " ", "A", ".">>, last_name |-> <<"D", "o">>,
                     affiliations |-> <<"1", "2">>],
                    [first_middle |-> <<"J">>, last_name |-> <<"L", "i">>,
                     affiliations |-> <<"2">>] >>

\* the positions of the block's authors written without a digit run, and with one
BarePositions == {p \in 1..Len(block_a) : block_a[p].bare}

MarkedPositions == {p \in 1..Len(block_a) : ~block_a[p].bare}

\* the text of the entries of parts from position from on, the first of them
\* without its separator
RECURSIVE TextOfParts(_, _, _)
TextOfParts(parts, from, first) ==
    IF from > Len(parts) THEN <<>>
    ELSE (IF first THEN <<>> ELSE parts[from].sep) \o parts[from].written
         \o TextOfParts(parts, from + 1, FALSE)

\* the block as it reads when the author at position p is absent from it
TextWithout(p) ==
    TextOfParts(SubSeq(block_a, 1, p - 1) \o SubSeq(block_a, p + 1, Len(block_a)), 1, TRUE)

\* the words of a record's name: first_middle and last_name, split at
\* whitespace and commas
NameWords(rec) ==
    LET name == rec.first_middle \o <<" ">> \o rec.last_name
    IN  SplitWS([i \in 1..Len(name) |-> IF name[i] = "," THEN " " ELSE name[i]])

EndsWith(s, suffix) ==
    /\ Len(suffix) <= Len(s)
    /\ SubSeq(s, Len(s) - Len(suffix) + 1, Len(s)) = suffix

\* the authors without a digit run that stand directly before position m
BareRunBefore(m) ==
    {p \in BarePositions : p < m /\ \A q \in p..(m - 1) : q \in BarePositions}

\* the name tokens of the authors at positions from..to, in order
RECURSIVE TokensOf(_, _)
TokensOf(from, to) ==
    IF from > to THEN <<>> ELSE listed[from] \o TokensOf(from + 1, to)

\* no other author of the block shares a token with the author at position p
NameListedOnce(p) ==
    \A q \in 1..Len(listed) : q # p => Range(listed[q]) \cap Range(listed[p]) = {}

\* C12 as stated: an author written without a digit run leaves no trace: no
\* record holds a word of the author's name, and the records are those of the
\* block without the author.
C12_BareAuthorLeavesNoTrace ==
    apc = "done" =>
      \A p \in BarePositions :
          /\ NameListedOnce(p) =>
                \A k \in 1..Len(authors) :
                    Range(NameWords(authors[k])) \cap Range(listed[p]) = {}
          /\ authors = ParseAuthorsToList(TextWithout(p))

\* C12 as amended: an author written without a digit run gets no record of
\* its own: there is one record per author written with a digit run.  When no
\* digit run follows the author in the block the author leaves no trace (the
\* records are those of the block without the author).  When one follows, the name is absorbed by the record of the
\* next author written with a digit run: the words of that record's name are
\* the words of the authors without a digit run directly before it, in order,
\* then its own; its affiliations are its own; its last_name ends with its own
\* last token, and is that token unless the name is a single token written
\* straight after a comma.
C12_BareAuthorAbsorbedOrDropped ==
    apc = "done" =>
      /\ authors = ParseAuthorsToList(text_a)
      /\ Len(authors) = Cardinality(MarkedPositions)
      /\ \A p \in BarePositions :
            (\A q \in (p + 1)..Len(block_a) : q \in BarePositions) =>
                authors = ParseAuthorsToList(TextWithout(p))
      /\ \A m \in MarkedPositions :
            LET k == Cardinality({q \in MarkedPositions : q <= m})
                from == SetMin(BareRunBefore(m) \cup {m})
                alone == ParseAuthorsToList(block_a[m].written)[1]
            IN  /\ NameWords(authors[k]) = TokensOf(from, m)
                /\ EndsWith(authors[k].last_name, listed[m][Len(listed[m])])
                /\ (Len(listed[m]) > 1 \/ from = m \/ block_a[m].sep # <<",">>) =>
                       authors[k].last_name = listed[m][Len(listed[m])]
                /\ authors[k].affiliations = alone.affiliations

\* an author without a digit run, then an author with one: one record, whose
\* first_middle starts with the name of the first
C12_Witness ==
    /\ apc = "done"
    /\ text_a = <<"M", " ", "N", "g", ",", " ", "J", " ", "D", "o", "1", ",", "2">>
    /\ BarePositions = {1}
    /\ authors = << [first_middle |-> <<"M", " ", "N", "g", ",", " ", "J">>,
                     last_name |-> <<"D", "o">>,
                     affiliations |-> <<"1", ",", "2">>] >>

(***************************************************************************)
(* Properties of the renderer.                                             *)
(***************************************************************************)
\* the paragraphs of the document after the "Affiliations" heading
AffiliationParagraphs == SubSeq(document, 5, Len(document))

\* the id a paragraph of the affiliation list renders
ParagraphId(para) == Unescape(para[1].t)

\* x comes before y in the order of the ids: by numeric value when both are
\* numeric, lexically when neither is, numeric ids before the others
IdBefore(x, y) ==
    IF AllDigits(x) /\ AllDigits(y) THEN IntOf(x) <= IntOf(y)
    ELSE IF ~AllDigits(x) /\ ~AllDigits(y) THEN StrLe(x, y)
    ELSE AllDigits(x)

\* C13: generate_document_xml completes without raising for every affiliation
\* mapping, and the document it returns has, after the "Affiliations" heading,
\* exactly one paragraph per affiliation, in ascending numeric order of the ids
\* (lexical order for ids that are not numeric), each paragraph being the id,
\* one space, then the affiliation text.
C13_RendersEveryMapping ==
    /\ tpc # "raised"
    /\ tpc = "generated" =>
          /\ Len(AffiliationParagraphs) = Len(affiliations_in)
          /\ \A p \in 1..Len(affiliations_in) :
                \E q \in 1..Len(AffiliationParagraphs) :
                    ParagraphId(AffiliationParagraphs[q]) = affiliations_in[p][1]
          /\ \A q \in 1..Len(AffiliationParagraphs) :
                LET para == AffiliationParagraphs[q]
                IN  /\ Len(para) = 2
                    /\ HasKey(affiliations_in, ParagraphId(para))
                    /\ Flatten(ParaText(para))
                          = ParagraphId(para) \o <<" ">> \o Get(affiliations_in, ParagraphId(para))
          /\ \A q \in 1..(Len(AffiliationParagraphs) - 1) :
                IdBefore(ParagraphId(AffiliationParagraphs[q]),
                         ParagraphId(AffiliationParagraphs[q + 1]))

(***************************************************************************)
(* Properties of the renderer and the parsers together.                    *)
(***************************************************************************)
\* C9: a roster whose authors all carry a reference, rendered and read back by
\* the extractor, gives the same author names in the same order, the same
\* reference string for each author and the same id-to-text map; the "Authors"
\* heading is taken as the title and the "Affiliations" heading as the sentinel.
C9_RoundTrip ==
    tpc = "parsed" =>
      /\ Len(authors) = Len(authors_in)
      /\ \A p \in 1..Len(authors_in) :
            /\ Strip(authors[p].first_middle \o <<" ">> \o authors[p].last_name)
                  = Strip(authors_in[p].first \o <<" ">> \o authors_in[p].last)
            /\ authors[p].affiliations = authors_in[p].affils
      /\ Range(affiliations) = Range(affiliations_in)
      /\ Len(affiliations) = Len(affiliations_in)
      /\ Split(full_text, "\n")[1] = <<"A", "u", "t", "h", "o", "r", "s">>
      /\ authors_in # <<>> =>
            author_text = Split(full_text, "\n")[2]

\* two authors and two affiliations, the ids out of numeric order in the map,
\* one text with characters the markup reserves
C9_Witness ==
    /\ tpc = "parsed"
    /\ Len(authors_in) = 2
    /\ authors_in[1].last = <<"O", "&", "N">>
    /\ authors_in[2].first = <<"J", " ", "A", ".">>
    /\ Len(affiliations_in) = 2
    /\ affiliations_in[1] = << <<"1", "2">>, <<"3", " ", "R", "&", "D", "<", "x", ">">> >>
    /\ affiliations_in[2][1] = <<"2">>
    /\ authors[2].last_name = <<"L", "i">>
    /\ Get(affiliations, <<"1", "2">>) = <<"3", " ", "R", "&", "D", "<", "x", ">">>

(***************************************************************************)
(* Properties of the pipeline driver and the exit statuses.                *)
(***************************************************************************)
\* the positions of the script a step runs
StagePcs(n) ==
    CASE n = 1 -> {"s1_read", "s1_write_affiliations", "s1_write_names"}
      [] n = 2 -> {"s2_read_affiliations", "s2_read_names", "s2_write_affiliations",
                   "s2_write_names"}
      [] n = 3 -> {"s3_read_affiliations", "s3_read_names", "s3_write"}

Started(n) == exit_status[n] # -1 \/ ppc \in StagePcs(n)

\* C10: a stage that met a fatal error (its input missing or unreadable, or one
\* of its output files not written) ends with a non-zero status, and the driver
\* then ends with a non-zero status without running a later stage or the
\* cleanup.
C10_NonZeroExitOnFatalError ==
    \A n \in fatal :
       /\ exit_status[n] # 0
       /\ entry = "pipeline" =>
             /\ \A later \in (n + 1)..3 : ~Started(later)
             /\ ~cleaned
             /\ ppc \notin {"cleanup", "finished"}
             /\ driver_status # 0

\* the files a step writes
StepOutputs(n) ==
    CASE n = 1 -> {"affiliations.csv", "names.csv"}
      [] n = 2 -> {"reordered_affiliations.csv", "reordered_names.csv"}
      [] n = 3 -> {"output.docx"}

\* C14: no partial output on a fatal path: a step that has met a fatal error
\* has created or overwritten none of its output files, and in the pipeline a
\* file of step 2 or 3 is written only when no step before it has met one.
C14_NoPartialOutput ==
    \A n \in 1..3 : \A f \in StepOutputs(n) :
        files[f] = "new" =>
            /\ n \notin fatal
            /\ entry = "pipeline" => \A m \in 1..(n - 1) : m \notin fatal

====
